---- MODULE Spec2Model ----
(***************************************************************************)
(* Model of lib/jxl/color_encoding_internal.cc: the ColorEncoding          *)
(* aggregate (color space, white point, primaries, transfer function,      *)
(* rendering intent, cached ICC), its setters, its field-visitor pass and  *)
(* its Description() string.                                               *)
(*                                                                         *)
(* Numbers.  A chromaticity double is a record [s, u, n] standing for      *)
(* s * (u + n/1000) * 1e-6 (s the sign, u whole micro-units, n the         *)
(* thousandths of a micro-unit); the stored Customxy integers are int32    *)
(* micro-units.  A gamma double is an integer count of 1e-9; the stored    *)
(* gamma is an integer count of 1e-7 (kGammaMul == 1e7).                   *)
(***************************************************************************)
EXTENDS Integers, Sequences, FiniteSets, TLC

VARIABLES ce, prev, op, arg, ok, out, nops

vars == <<ce, prev, op, arg, ok, out, nops>>

(***************************************************************************)
(* Enumerations                                                            *)
(***************************************************************************)
ColorSpace == {"kRGB", "kGray", "kXYB", "kUnknown"}

WhitePoint == {"kD65", "kCustom", "kE", "kDCI"}

Primaries == {"kSRGB", "kCustom", "k2100", "kP3"}

TransferFunction ==
  {"kSRGB", "kLinear", "k709", "kPQ", "kHLG", "kDCI", "kUnknown"}

RenderingIntent == {"kPerceptual", "kRelative", "kSaturation", "kAbsolute"}

(***************************************************************************)
(* Doubles                                                                 *)
(***************************************************************************)
Abs(i) == IF i < 0 THEN -i ELSE i

\* The chromaticity double s * (u + n/1000) * 1e-6.
Dbl(s, u, n) == [s |-> s, u |-> u, n |-> n]

\* The double nearest to nano * 1e-9, for |nano| < 2^31.
DblNano(nano) ==
  Dbl(IF nano < 0 THEN -1 ELSE 1, Abs(nano) \div 1000, Abs(nano) % 1000)

IsZero(d) == d.u = 0 /\ d.n = 0

\* The float exponent of an integer part i >= 1 below 2^24: float32 values of
\* that size lie on the grid of spacing 2^-KOf(i).
RECURSIVE KOf(_)
KOf(i) == IF i >= 8388608 THEN 0 ELSE 1 + KOf(2 * i)

RECURSIVE Pow2(_)
Pow2(k) == IF k = 0 THEN 1 ELSE 2 * Pow2(k - 1)

\* roundf((float) v) for v = i + num/den >= 0, with i < 2^24 and den <= 1000:
\* the double is first rounded to the nearest float32 (ties to even), then
\* roundf rounds that to the nearest integer, halves away from zero.  (A v
\* exactly on a float32 tie is decided by the last bit of the double product,
\* which is not carried here; the inputs below avoid such values.)
RoundfNonNeg(i, num, den) ==
  LET k == IF i = 0 THEN 24 ELSE KOf(i)
      up == IF k = 0
              THEN 2 * num > den \/ (2 * num = den /\ i % 2 = 1)
              ELSE IF k = 1
                THEN 4 * num > den
                ELSE \/ 2 * num >= den
                     \/ k <= 9 /\ (den - 2 * num) * Pow2(k) <= den
  IN  IF up THEN i + 1 ELSE i

(***************************************************************************)
(* Customxy                                                                *)
(***************************************************************************)
\* F64FromCustomxyI32: i * 1E-6.
F64FromCustomxyI32(i) == Dbl(IF i < 0 THEN -1 ELSE 1, Abs(i), 0)

\* The range test of F64ToCustomxyI32: -4 <= f && f <= 4.
F64InBounds(f) == f.u < 4000000 \/ (f.u = 4000000 /\ f.n = 0)

\* The integer F64ToCustomxyI32 stores: static_cast<int32_t>(roundf(f * 1E6)).
F64ToCustomxyI32(f) == f.s * RoundfNonNeg(f.u, f.n, 1000)

\* PackSigned / UnpackSigned: the zig-zag map between int32 and uint32.
PackSigned(i) == IF i >= 0 THEN 2 * i ELSE -2 * i - 1

UnpackSigned(ux) == IF ux % 2 = 0 THEN ux \div 2 ELSE -((ux + 1) \div 2)

\* The U32 distribution of Customxy::VisitFields: Bits(19),
\* BitsOffset(19, 524288), BitsOffset(20, 1048576), BitsOffset(21, 2097152).
\* Each tier is <<number of bits, offset>>.
CustomxyU32 ==
  <<(<<19, 0>>), (<<19, 524288>>), (<<20, 1048576>>), (<<21, 2097152>>)>>

\* A U32 field can hold v iff one of its four tiers can: offset <= v <
\* offset + 2^bits.
U32CanEncode(dist, v) ==
  \E t \in 1..Len(dist) :
    dist[t][2] <= v /\ v < dist[t][2] + Pow2(dist[t][1])

\* Bundle::CanEncode on a Customxy: both coordinates fit their U32 field.
CustomxyCanEncode(xy) ==
  /\ U32CanEncode(CustomxyU32, PackSigned(xy.x))
  /\ U32CanEncode(CustomxyU32, PackSigned(xy.y))

\* Customxy::Get.
CustomxyGet(st) ==
  [x |-> F64FromCustomxyI32(st.x), y |-> F64FromCustomxyI32(st.y)]

\* Customxy::Set without the test that the stored values can be encoded.
CustomxySetNoCanEncode(st, xy) ==
  IF ~F64InBounds(xy.x) THEN [ok |-> FALSE, st |-> st]
  ELSE IF ~F64InBounds(xy.y)
    THEN [ok |-> FALSE, st |-> [st EXCEPT !.x = F64ToCustomxyI32(xy.x)]]
  ELSE [ok |-> TRUE,
        st |-> [x |-> F64ToCustomxyI32(xy.x), y |-> F64ToCustomxyI32(xy.y)]]

\* Customxy::Set: [ok, st], the status returned and the storage left behind.
\* storage_.x is written before y is looked at, and both are written before
\* the encodability test.
CustomxySet(st, xy) ==
  IF ~F64InBounds(xy.x) THEN [ok |-> FALSE, st |-> st]
  ELSE LET st1 == [st EXCEPT !.x = F64ToCustomxyI32(xy.x)] IN
    IF ~F64InBounds(xy.y) THEN [ok |-> FALSE, st |-> st1]
    ELSE LET st2 == [st1 EXCEPT !.y = F64ToCustomxyI32(xy.y)] IN
      [ok |-> CustomxyCanEncode(st2), st |-> st2]

(***************************************************************************)
(* ApproxEq and the constants of the transfer function                     *)
(***************************************************************************)
\* ApproxEq's tolerance max_l1, in 1e-9: |a - b| <= 1E-3.
kApproxEqTol == 1000000

\* ApproxEq(a, b) for two doubles given in 1e-9.
ApproxEqNano(a, b) == Abs(a - b) <= kApproxEqTol

\* ApproxEq(d, c) for a chromaticity double d and a constant c in 1e-9 with
\* 0 < c < 1: no d of magnitude 1.2 or more is within the tolerance.
ApproxEq(d, c) ==
  IF d.u >= 1200000 THEN FALSE
  ELSE ApproxEqNano(d.s * (d.u * 1000 + d.n), c)

\* a < m / k over the rationals (a * k would not fit an int).
LessThanRatio(a, m, k) == a < m \div k \/ (a = m \div k /\ m % k # 0)

\* cms::CustomTransferFunction::kGammaMul: the stored gamma is gamma * 1e7.
kGammaMul == 10000000

\* cms::CustomTransferFunction::kMaxGamma: the smallest gamma is 1/kMaxGamma.
kMaxGamma == 8192

\* 1.0, 1.0 / 2.6 and 1.0 / 3 as doubles, in 1e-9.
kOne == 1000000000

kInv2_6 == 384615385

kThird == 333333333

(***************************************************************************)
(* CustomTransferFunction: [have_gamma, gamma, transfer_function,          *)
(* nonserialized_color_space]                                              *)
(***************************************************************************)
\* The default-constructed CustomTransferFunction (Bundle::Init: each field
\* at the default its VisitFields names).
DefaultTf ==
  [have_gamma |-> FALSE, gamma |-> kGammaMul, transfer_function |-> "kSRGB",
   nonserialized_color_space |-> "kRGB"]

TfIsGamma(tf) == tf.have_gamma

\* CustomTransferFunction::IsUnknown.
TfIsUnknown(tf) == ~tf.have_gamma /\ tf.transfer_function = "kUnknown"

\* CustomTransferFunction::SetTransferFunction.
SetTransferFunction(tf, f) ==
  [tf EXCEPT !.have_gamma = FALSE, !.transfer_function = f]

\* The stored gamma: roundf(gamma * kGammaMul), gamma in 1e-9.
GammaToStorage(g) == RoundfNonNeg(g \div 100, g % 100, 100)

\* SetGamma whose range test lets a gamma within the tolerance above 1.0
\* through.
SetGammaLaxUpperBound(tf, g) ==
  IF LessThanRatio(g, kOne, kMaxGamma) \/ g > kOne + kApproxEqTol
    THEN [ok |-> FALSE, tf |-> tf]
  ELSE IF ApproxEqNano(g, kOne)
    THEN [ok |-> TRUE,
          tf |-> [tf EXCEPT !.have_gamma = FALSE,
                            !.transfer_function = "kLinear"]]
  ELSE IF ApproxEqNano(g, kInv2_6)
    THEN [ok |-> TRUE,
          tf |-> [tf EXCEPT !.have_gamma = FALSE,
                            !.transfer_function = "kDCI"]]
  ELSE [ok |-> TRUE,
        tf |-> [tf EXCEPT !.have_gamma = TRUE,
                          !.gamma = GammaToStorage(g),
                          !.transfer_function = "kUnknown"]]

\* CustomTransferFunction::SetGamma, gamma in 1e-9: [ok, tf].
SetGamma(tf, g) ==
  IF LessThanRatio(g, kOne, kMaxGamma) \/ g > kOne
    THEN [ok |-> FALSE, tf |-> tf]
  ELSE IF ApproxEqNano(g, kOne)
    THEN [ok |-> TRUE,
          tf |-> [tf EXCEPT !.have_gamma = FALSE,
                            !.transfer_function = "kLinear"]]
  ELSE IF ApproxEqNano(g, kInv2_6)
    THEN [ok |-> TRUE,
          tf |-> [tf EXCEPT !.have_gamma = FALSE,
                            !.transfer_function = "kDCI"]]
  ELSE [ok |-> TRUE,
        tf |-> [tf EXCEPT !.have_gamma = TRUE,
                          !.gamma = GammaToStorage(g),
                          !.transfer_function = "kUnknown"]]

\* CustomTransferFunction::SetImplicit: [ok, tf].
SetImplicit(tf) ==
  IF tf.nonserialized_color_space = "kXYB"
    THEN [ok |-> TRUE, tf |-> SetGamma(tf, kThird).tf]
    ELSE [ok |-> FALSE, tf |-> tf]

(***************************************************************************)
(* ColorEncoding                                                           *)
(***************************************************************************)
\* The Customxy storage after Bundle::Init: both U32 fields at default 0.
DefaultCustomxy == [x |-> 0, y |-> 0]

\* No ICC bytes: storage_.icc.empty().
EmptyICC == [kind |-> "empty", of |-> <<>>]

\* The fields of a default-constructed ColorEncoding (Bundle::Init: each
\* field at the default its VisitFields names), with the ICC buffer `icc`.
DefaultColorEncoding(icc) ==
  [want_icc |-> FALSE, color_space |-> "kRGB", white_point |-> "kD65",
   primaries |-> "kSRGB", rendering_intent |-> "kRelative",
   white |-> DefaultCustomxy, red |-> DefaultCustomxy,
   green |-> DefaultCustomxy, blue |-> DefaultCustomxy,
   tf |-> DefaultTf, icc |-> icc, cmyk |-> FALSE]

\* ColorEncoding::HasPrimaries: the color spaces ToExternal and FromExternal
\* give primaries to.
HasPrimaries(c) == c.color_space \in {"kRGB", "kUnknown"}

\* ColorEncoding::ImplicitWhitePoint.
ImplicitWhitePoint(c) == c.color_space = "kXYB"

\* ColorEncoding::SetColorSpace: the color space, which the transfer
\* function's SetImplicit then goes by.
SetColorSpace(c, cs) ==
  [c EXCEPT !.color_space = cs, !.tf.nonserialized_color_space = cs]

\* ColorEncoding::GetWhitePoint.
GetWhitePoint(c) ==
  CASE c.white_point = "kCustom" -> CustomxyGet(c.white)
    [] c.white_point = "kD65" ->
         [x |-> DblNano(312700000), y |-> DblNano(329000000)]
    [] c.white_point = "kDCI" ->
         [x |-> DblNano(314000000), y |-> DblNano(351000000)]
    [] c.white_point = "kE" -> [x |-> DblNano(kThird), y |-> DblNano(kThird)]

\* ColorEncoding::SetWhitePointType.
SetWhitePointType(c, wp) == [ok |-> TRUE, ce |-> [c EXCEPT !.white_point = wp]]

\* SetWhitePoint that never recognises a preset: every white point is stored
\* as Custom.
SetWhitePointNoPreset(c, xy) ==
  IF IsZero(xy.x) \/ IsZero(xy.y) THEN [ok |-> FALSE, ce |-> c]
  ELSE LET r == CustomxySet(c.white, xy) IN
    [ok |-> r.ok,
     ce |-> [c EXCEPT !.white_point = "kCustom", !.white = r.st]]

\* ColorEncoding::SetWhitePoint: [ok, ce].
SetWhitePoint(c, xy) ==
  IF IsZero(xy.x) \/ IsZero(xy.y) THEN [ok |-> FALSE, ce |-> c]
  ELSE IF ApproxEq(xy.x, 312700000) /\ ApproxEq(xy.y, 329000000)
    THEN [ok |-> TRUE, ce |-> [c EXCEPT !.white_point = "kD65"]]
  ELSE IF ApproxEq(xy.x, kThird) /\ ApproxEq(xy.y, kThird)
    THEN [ok |-> TRUE, ce |-> [c EXCEPT !.white_point = "kE"]]
  ELSE IF ApproxEq(xy.x, 314000000) /\ ApproxEq(xy.y, 351000000)
    THEN [ok |-> TRUE, ce |-> [c EXCEPT !.white_point = "kDCI"]]
  ELSE LET r == CustomxySet(c.white, xy) IN
    [ok |-> r.ok,
     ce |-> [c EXCEPT !.white_point = "kCustom", !.white = r.st]]

\* ColorEncoding::SetRenderingIntent.
SetRenderingIntent(c, ri) ==
  [ok |-> TRUE, ce |-> [c EXCEPT !.rendering_intent = ri]]

\* ColorEncoding::GetPrimaries.
GetPrimaries(c) ==
  CASE c.primaries = "kCustom" ->
         [r |-> CustomxyGet(c.red), g |-> CustomxyGet(c.green),
          b |-> CustomxyGet(c.blue)]
    [] c.primaries = "kSRGB" ->
         [r |-> [x |-> DblNano(639998686), y |-> DblNano(330010138)],
          g |-> [x |-> DblNano(300003784), y |-> DblNano(600003357)],
          b |-> [x |-> DblNano(150002046), y |-> DblNano(59997204)]]
    [] c.primaries = "k2100" ->
         [r |-> [x |-> DblNano(708000000), y |-> DblNano(292000000)],
          g |-> [x |-> DblNano(170000000), y |-> DblNano(797000000)],
          b |-> [x |-> DblNano(131000000), y |-> DblNano(46000000)]]
    [] c.primaries = "kP3" ->
         [r |-> [x |-> DblNano(680000000), y |-> DblNano(320000000)],
          g |-> [x |-> DblNano(265000000), y |-> DblNano(690000000)],
          b |-> [x |-> DblNano(150000000), y |-> DblNano(60000000)]]

\* ColorEncoding::SetPrimariesType.
SetPrimariesType(c, p) == [ok |-> TRUE, ce |-> [c EXCEPT !.primaries = p]]

\* ColorEncoding::SetPrimaries: [ok, ce].  The tag is set to kCustom before
\* the three Customxy::Set calls, the first failure of which returns.
SetPrimaries(c, xy) ==
  IF \/ IsZero(xy.r.x) \/ IsZero(xy.r.y) \/ IsZero(xy.g.x)
     \/ IsZero(xy.g.y) \/ IsZero(xy.b.x) \/ IsZero(xy.b.y)
    THEN [ok |-> FALSE, ce |-> c]
  ELSE IF /\ ApproxEq(xy.r.x, 640000000) /\ ApproxEq(xy.r.y, 330000000)
          /\ ApproxEq(xy.g.x, 300000000) /\ ApproxEq(xy.g.y, 600000000)
          /\ ApproxEq(xy.b.x, 150000000) /\ ApproxEq(xy.b.y, 60000000)
    THEN [ok |-> TRUE, ce |-> [c EXCEPT !.primaries = "kSRGB"]]
  ELSE IF /\ ApproxEq(xy.r.x, 708000000) /\ ApproxEq(xy.r.y, 292000000)
          /\ ApproxEq(xy.g.x, 170000000) /\ ApproxEq(xy.g.y, 797000000)
          /\ ApproxEq(xy.b.x, 131000000) /\ ApproxEq(xy.b.y, 46000000)
    THEN [ok |-> TRUE, ce |-> [c EXCEPT !.primaries = "k2100"]]
  ELSE IF /\ ApproxEq(xy.r.x, 680000000) /\ ApproxEq(xy.r.y, 320000000)
          /\ ApproxEq(xy.g.x, 265000000) /\ ApproxEq(xy.g.y, 690000000)
          /\ ApproxEq(xy.b.x, 150000000) /\ ApproxEq(xy.b.y, 60000000)
    THEN [ok |-> TRUE, ce |-> [c EXCEPT !.primaries = "kP3"]]
  ELSE LET c0 == [c EXCEPT !.primaries = "kCustom"]
           r == CustomxySet(c.red, xy.r)
           c1 == [c0 EXCEPT !.red = r.st]
       IN IF ~r.ok THEN [ok |-> FALSE, ce |-> c1]
          ELSE LET g == CustomxySet(c.green, xy.g)
                   c2 == [c1 EXCEPT !.green = g.st]
               IN IF ~g.ok THEN [ok |-> FALSE, ce |-> c2]
                  ELSE LET b == CustomxySet(c.blue, xy.b) IN
                    [ok |-> b.ok, ce |-> [c2 EXCEPT !.blue = b.st]]

(***************************************************************************)
(* The cached ICC profile                                                  *)
(***************************************************************************)
\* What a profile generated from the fields of c is determined by: the values
\* the getters give (a Customxy or gamma that its tag hides plays no part).
ProfileFields(c) ==
  <<c.color_space, GetWhitePoint(c),
    IF HasPrimaries(c) THEN <<GetPrimaries(c)>> ELSE <<>>,
    IF c.tf.have_gamma THEN <<"gamma", c.tf.gamma>>
                       ELSE <<c.tf.transfer_function, 0>>,
    c.rendering_intent>>

\* Whether MaybeCreateProfile can make a profile for c: not for XYB, not for
\* an unknown color space or transfer function, and not for a white point
\* outside the range AdaptToXYZD50 and PrimariesToXYZ accept
\* (0 <= wx <= 1, 0 < wy <= 1).
MaybeCreateProfileOk(c) ==
  LET w == GetWhitePoint(c) IN
  /\ c.color_space \in {"kRGB", "kGray"}
  /\ ~TfIsUnknown(c.tf)
  /\ (w.x.s = 1 \/ IsZero(w.x))
  /\ (w.x.u < 1000000 \/ (w.x.u = 1000000 /\ w.x.n = 0))
  /\ w.y.s = 1 /\ ~IsZero(w.y)
  /\ (w.y.u < 1000000 \/ (w.y.u = 1000000 /\ w.y.n = 0))

\* ColorEncoding::CreateICC: [ok, ce].  The buffer is cleared first, and is
\* left empty when no profile can be made.
CreateICC(c) ==
  IF MaybeCreateProfileOk(c)
    THEN [ok |-> TRUE,
          ce |-> [c EXCEPT !.icc = [kind |-> "created",
                                    of |-> ProfileFields(c)]]]
    ELSE [ok |-> FALSE, ce |-> [c EXCEPT !.icc = EmptyICC]]

(***************************************************************************)
(* FromExternal.  A JxlColorEncoding is a record [color_space, white_point,*)
(* white_point_xy, primaries, primaries_xy, transfer_function, gamma,      *)
(* rendering_intent]; an enum value no case of a switch names is written   *)
(* "invalid", and JXL_TRANSFER_FUNCTION_GAMMA is written "GAMMA".          *)
(***************************************************************************)
\* Lines 674-681: the white point.
FromExternalWhitePoint(c, e) ==
  IF e.white_point \notin WhitePoint THEN [ok |-> FALSE, ce |-> c]
  ELSE LET c1 == [c EXCEPT !.white_point = e.white_point] IN
    IF e.white_point = "kCustom" THEN SetWhitePoint(c1, e.white_point_xy)
    ELSE [ok |-> TRUE, ce |-> c1]

\* Lines 683-697: the primaries.
FromExternalPrimaries(c, e) ==
  IF e.color_space \notin {"kRGB", "kUnknown"} THEN [ok |-> TRUE, ce |-> c]
  ELSE IF e.primaries \notin Primaries THEN [ok |-> FALSE, ce |-> c]
  ELSE LET c1 == [c EXCEPT !.primaries = e.primaries] IN
    IF e.primaries = "kCustom" THEN SetPrimaries(c1, e.primaries_xy)
    ELSE [ok |-> TRUE, ce |-> c1]

\* Lines 698-710: the transfer function, built in a local that replaces
\* this->tf only once it is complete.
FromExternalTf(c, e) ==
  LET tf == [DefaultTf EXCEPT !.nonserialized_color_space = c.color_space] IN
  IF e.transfer_function = "GAMMA"
    THEN LET r == SetGamma(tf, e.gamma) IN
      [ok |-> r.ok, ce |-> IF r.ok THEN [c EXCEPT !.tf = r.tf] ELSE c]
  ELSE IF e.transfer_function \notin TransferFunction
    THEN [ok |-> FALSE, ce |-> c]
  ELSE [ok |-> TRUE,
        ce |-> [c EXCEPT !.tf = SetTransferFunction(tf, e.transfer_function)]]

\* The last step of FromExternal without the call of CreateICC.
FromExternalIntentNoCreateICC(c, e) ==
  IF e.rendering_intent \notin RenderingIntent THEN [ok |-> FALSE, ce |-> c]
  ELSE [ok |-> TRUE, ce |-> [c EXCEPT !.rendering_intent = e.rendering_intent]]

\* Lines 712-724: the rendering intent, then the ICC is re-created; that no
\* profile can be made is not an error.
FromExternalIntent(c, e) ==
  IF e.rendering_intent \notin RenderingIntent THEN [ok |-> FALSE, ce |-> c]
  ELSE [ok |-> TRUE,
        ce |-> CreateICC([c EXCEPT !.rendering_intent = e.rendering_intent]).ce]

\* ColorEncoding::FromExternal: [ok, ce].
FromExternal(c, e) ==
  LET r1 == FromExternalWhitePoint(SetColorSpace(c, e.color_space), e) IN
  IF ~r1.ok THEN r1
  ELSE LET r2 == FromExternalPrimaries(r1.ce, e) IN
    IF ~r2.ok THEN r2
    ELSE LET r3 == FromExternalTf(r2.ce, e) IN
      IF ~r3.ok THEN r3 ELSE FromExternalIntent(r3.ce, e)

(***************************************************************************)
(* SetFieldsFromICC.  The CMS is the caller's cms.set_fields_from_icc      *)
(* callback; what it makes of the ICC bytes is a record [ok, cmyk,         *)
(* external]: whether it could parse them, whether the profile is CMYK,    *)
(* and the JxlColorEncoding it filled in.                                  *)
(***************************************************************************)
\* Lines 436-438: the encoding is marked invalid before anything is tried.
MarkInvalid(c) ==
  [SetColorSpace(c, "kUnknown") EXCEPT
     !.tf = SetTransferFunction(@, "kUnknown")]

\* Lines 452-455: the ICC bytes are moved out of the object (which leaves
\* the buffer empty), the parsed fields are imported, and the bytes are
\* moved back only when the import succeeded.
ImportParsed(c, external) ==
  LET r == FromExternal([c EXCEPT !.icc = EmptyICC], external) IN
  IF ~r.ok THEN r ELSE [ok |-> TRUE, ce |-> [r.ce EXCEPT !.icc = c.icc]]

\* ColorEncoding::SetFieldsFromICC: [ok, ce], with `parsed` what the CMS
\* makes of the ICC bytes (it is asked only when there are any).
SetFieldsFromICC(c, parsed) ==
  LET c1 == MarkInvalid(c) IN
  IF c1.icc = EmptyICC THEN [ok |-> FALSE, ce |-> c1]
  ELSE IF ~parsed.ok THEN [ok |-> FALSE, ce |-> c1]
  ELSE IF parsed.cmyk THEN [ok |-> TRUE, ce |-> [c1 EXCEPT !.cmyk = TRUE]]
  ELSE ImportParsed(c1, parsed.external)

(***************************************************************************)
(* Description                                                             *)
(***************************************************************************)
\* The codes baked into Description (the ToString overloads).
ColorSpaceCode(cs) ==
  CASE cs = "kRGB" -> "RGB" [] cs = "kGray" -> "Gra"
    [] cs = "kXYB" -> "XYB" [] cs = "kUnknown" -> "CS?"

WhitePointCode(wp) ==
  CASE wp = "kD65" -> "D65" [] wp = "kCustom" -> "Cst"
    [] wp = "kE" -> "EER" [] wp = "kDCI" -> "DCI"

PrimariesCode(pr) ==
  CASE pr = "kSRGB" -> "SRG" [] pr = "k2100" -> "202"
    [] pr = "kP3" -> "DCI" [] pr = "kCustom" -> "Cst"

TransferFunctionCode(f) ==
  CASE f = "kSRGB" -> "SRG" [] f = "kLinear" -> "Lin" [] f = "k709" -> "709"
    [] f = "kPQ" -> "PeQ" [] f = "kHLG" -> "HLG" [] f = "kDCI" -> "DCI"
    [] f = "kUnknown" -> "TF?"

RenderingIntentCode(ri) ==
  CASE ri = "kPerceptual" -> "Per" [] ri = "kRelative" -> "Rel"
    [] ri = "kSaturation" -> "Sat" [] ri = "kAbsolute" -> "Abs"

Digit(d) ==
  CASE d = 0 -> "0" [] d = 1 -> "1" [] d = 2 -> "2" [] d = 3 -> "3"
    [] d = 4 -> "4" [] d = 5 -> "5" [] d = 6 -> "6" [] d = 7 -> "7"
    [] d = 8 -> "8" [] d = 9 -> "9"

RECURSIVE Pow10(_)
Pow10(w) == IF w = 0 THEN 1 ELSE 10 * Pow10(w - 1)

RECURSIVE DecStr(_)
DecStr(n) == IF n < 10 THEN Digit(n) ELSE DecStr(n \div 10) \o Digit(n % 10)

\* The w decimals of f / 10^w, without the trailing zeros.
RECURSIVE FracStr(_, _)
FracStr(f, w) ==
  IF w = 0 \/ f = 0 THEN ""
  ELSE Digit(f \div Pow10(w - 1)) \o FracStr(f % Pow10(w - 1), w - 1)

\* ToString(double) of v * 10^-w: the number in decimal notation.
ToStringScaled(v, w) ==
  (IF v < 0 THEN "-" ELSE "") \o DecStr(Abs(v) \div Pow10(w))
    \o (IF Abs(v) % Pow10(w) = 0 THEN ""
        ELSE "." \o FracStr(Abs(v) % Pow10(w), w))

\* ToString of the double a Customxy coordinate decodes to (i * 1E-6).
ToStringXY(i) == ToStringScaled(i, 6)

\* ToString(tf.GetGamma()): the stored gamma * 1e-7.
ToStringGamma(g) == ToStringScaled(g, 7)

\* Description that prints the transfer function of an XYB encoding too.
DescriptionAlwaysTf(c) ==
  LET d0 == ColorSpaceCode(c.color_space)
      d1 == IF c.color_space = "kXYB" THEN d0
            ELSE IF c.white_point = "kCustom"
              THEN d0 \o "_" \o ToStringXY(c.white.x) \o ";"
                      \o ToStringXY(c.white.y)
              ELSE d0 \o "_" \o WhitePointCode(c.white_point)
      d2 == IF ~HasPrimaries(c) THEN d1
            ELSE IF c.primaries = "kCustom"
              THEN d1 \o "_" \o ToStringXY(c.red.x) \o ";"
                      \o ToStringXY(c.red.y) \o ";"
                      \o ToStringXY(c.green.x) \o ";"
                      \o ToStringXY(c.green.y) \o ";"
                      \o ToStringXY(c.blue.x) \o ";"
                      \o ToStringXY(c.blue.y)
              ELSE d1 \o "_" \o PrimariesCode(c.primaries)
      d3 == d2 \o "_" \o RenderingIntentCode(c.rendering_intent)
  IN  IF TfIsGamma(c.tf)
        THEN d3 \o "_" \o "g" \o ToStringGamma(c.tf.gamma)
        ELSE d3 \o "_" \o TransferFunctionCode(c.tf.transfer_function)

\* ColorEncoding::Description.  A custom white point or custom primaries are
\* printed from what GetWhitePoint / GetPrimaries decode from the storage.
Description(c) ==
  LET explicit_wp_tf == c.color_space # "kXYB"
      d0 == ColorSpaceCode(c.color_space)
      d1 == IF ~explicit_wp_tf THEN d0
            ELSE IF c.white_point = "kCustom"
              THEN d0 \o "_" \o ToStringXY(c.white.x) \o ";"
                      \o ToStringXY(c.white.y)
              ELSE d0 \o "_" \o WhitePointCode(c.white_point)
      d2 == IF ~HasPrimaries(c) THEN d1
            ELSE IF c.primaries = "kCustom"
              THEN d1 \o "_" \o ToStringXY(c.red.x) \o ";"
                      \o ToStringXY(c.red.y) \o ";"
                      \o ToStringXY(c.green.x) \o ";"
                      \o ToStringXY(c.green.y) \o ";"
                      \o ToStringXY(c.blue.x) \o ";"
                      \o ToStringXY(c.blue.y)
              ELSE d1 \o "_" \o PrimariesCode(c.primaries)
      d3 == d2 \o "_" \o RenderingIntentCode(c.rendering_intent)
  IN  IF ~explicit_wp_tf THEN d3
      ELSE IF TfIsGamma(c.tf)
        THEN d3 \o "_" \o "g" \o ToStringGamma(c.tf.gamma)
        ELSE d3 \o "_" \o TransferFunctionCode(c.tf.transfer_function)

(***************************************************************************)
(* The field visitor.  A pass is a record [ok, c, reading, stream, trace]: *)
(* the status so far, the object, the mode, the fields written so far (a   *)
(* write pass) or still to be read (a read pass), each a pair <<field,     *)
(* value>>, and the fields visited so far, in order.  Every step of a pass  *)
(* runs only if no step before it failed (JXL_QUIET_RETURN_IF_ERROR): a    *)
(* step handed a failed pass returns it as it is.                          *)
(***************************************************************************)
Seen(ps, name) == [ps EXCEPT !.trace = Append(@, name)]

\* One primitive visit (Bool, Enum, U32 or Bits) of field `name`, whose
\* current value is cur: [ps, v], v the value of the field after the visit.
\* A write pass appends the value when the primitive can encode it (enc) and
\* fails otherwise; a read pass takes the next field of the stream, and fails
\* when the stream does not hold this field there.
VisitValue(ps, name, cur, enc) ==
  IF ps.reading
    THEN IF ps.stream # <<>> /\ Head(ps.stream)[1] = name
      THEN [ps |-> [Seen(ps, name) EXCEPT !.stream = Tail(@)],
            v |-> Head(ps.stream)[2]]
      ELSE [ps |-> [Seen(ps, name) EXCEPT !.ok = FALSE], v |-> cur]
    ELSE IF enc
      THEN [ps |-> [Seen(ps, name) EXCEPT
                      !.stream = Append(@, <<name, cur>>)],
            v |-> cur]
      ELSE [ps |-> [Seen(ps, name) EXCEPT !.ok = FALSE], v |-> cur]

\* Customxy::VisitFields on member w ("white", "red", "green" or "blue").
VisitCustomxyX(ps, w) ==
  IF ~ps.ok THEN ps ELSE
  LET r == VisitValue(ps, w \o ".x", PackSigned(ps.c[w].x),
                      U32CanEncode(CustomxyU32, PackSigned(ps.c[w].x)))
  IN  IF r.ps.ok
        THEN [r.ps EXCEPT !.c = [@ EXCEPT ![w].x = UnpackSigned(r.v)]]
        ELSE r.ps

VisitCustomxyY(ps, w) ==
  IF ~ps.ok THEN ps ELSE
  LET r == VisitValue(ps, w \o ".y", PackSigned(ps.c[w].y),
                      U32CanEncode(CustomxyU32, PackSigned(ps.c[w].y)))
  IN  IF r.ps.ok
        THEN [r.ps EXCEPT !.c = [@ EXCEPT ![w].y = UnpackSigned(r.v)]]
        ELSE r.ps

CustomxyVisitFields(ps, w) == VisitCustomxyY(VisitCustomxyX(ps, w), w)

\* The gamma branch of CustomTransferFunction::VisitFields: the 24-bit field,
\* then the range test on what it holds.
VisitGamma(ps) ==
  LET r == VisitValue(ps, "tf.gamma", ps.c.tf.gamma,
                      0 <= ps.c.tf.gamma /\ ps.c.tf.gamma < Pow2(24))
  IN  IF ~r.ps.ok THEN r.ps
      ELSE IF r.v > kGammaMul \/ LessThanRatio(r.v, kGammaMul, kMaxGamma)
        THEN [r.ps EXCEPT !.ok = FALSE, !.c.tf.gamma = r.v]
        ELSE [r.ps EXCEPT !.c.tf.gamma = r.v]

VisitTransferFunctionEnum(ps) ==
  LET r == VisitValue(ps, "tf.transfer_function",
                      ps.c.tf.transfer_function, TRUE)
  IN  IF r.ps.ok THEN [r.ps EXCEPT !.c.tf.transfer_function = r.v] ELSE r.ps

\* CustomTransferFunction::VisitFields.  SetImplicit acts on the object in
\* either mode, going by tf.nonserialized_color_space.
CustomTransferFunctionVisitFields(ps) ==
  IF ~ps.ok THEN ps ELSE
  LET imp == SetImplicit(ps.c.tf)
      p0 == [ps EXCEPT !.c.tf = imp.tf]
  IN  IF imp.ok THEN p0
      ELSE LET r == VisitValue(p0, "tf.have_gamma", p0.c.tf.have_gamma, TRUE)
               p1 == IF r.ps.ok THEN [r.ps EXCEPT !.c.tf.have_gamma = r.v]
                     ELSE r.ps
           IN  IF ~p1.ok THEN p1
               ELSE IF p1.c.tf.have_gamma THEN VisitGamma(p1)
               ELSE VisitTransferFunctionEnum(p1)

\* Visitor::AllDefault on a ColorEncoding: every field the pass would visit
\* holds its default.
AllDefault(c) ==
  /\ ~c.want_icc /\ c.color_space = "kRGB" /\ c.white_point = "kD65"
  /\ c.primaries = "kSRGB" /\ ~c.tf.have_gamma
  /\ c.tf.transfer_function = "kSRGB" /\ c.rendering_intent = "kRelative"

\* Visitor::SetDefault: all serialized fields at their defaults, the
\* nonserialized ones (and the ICC buffer) as they were.
SetDefault(c) ==
  [DefaultColorEncoding(c.icc) EXCEPT
     !.cmyk = c.cmyk,
     !.tf.nonserialized_color_space = c.tf.nonserialized_color_space]

VisitWantIcc(ps) ==
  IF ~ps.ok THEN ps ELSE
  LET r == VisitValue(ps, "want_icc", ps.c.want_icc, TRUE) IN
  IF r.ps.ok THEN [r.ps EXCEPT !.c.want_icc = r.v] ELSE r.ps

\* The enum is read into storage_.color_space alone.
VisitColorSpace(ps) ==
  IF ~ps.ok THEN ps ELSE
  LET r == VisitValue(ps, "color_space", ps.c.color_space, TRUE) IN
  IF r.ps.ok THEN [r.ps EXCEPT !.c.color_space = r.v] ELSE r.ps

\* Lines 583-589.
VisitWhitePoint(ps) ==
  IF ~ps.ok THEN ps ELSE
  IF ImplicitWhitePoint(ps.c) THEN ps
  ELSE LET r == VisitValue(ps, "white_point", ps.c.white_point, TRUE)
           p1 == IF r.ps.ok THEN [r.ps EXCEPT !.c.white_point = r.v]
                 ELSE r.ps
       IN  IF p1.ok /\ p1.c.white_point = "kCustom"
             THEN CustomxyVisitFields(p1, "white")
             ELSE p1

\* Lines 591-599.
VisitPrimaries(ps) ==
  IF ~ps.ok THEN ps ELSE
  IF ~HasPrimaries(ps.c) THEN ps
  ELSE LET r == VisitValue(ps, "primaries", ps.c.primaries, TRUE)
           p1 == IF r.ps.ok THEN [r.ps EXCEPT !.c.primaries = r.v] ELSE r.ps
       IN  IF p1.ok /\ p1.c.primaries = "kCustom"
             THEN CustomxyVisitFields(
                    CustomxyVisitFields(CustomxyVisitFields(p1, "red"),
                                        "green"),
                    "blue")
             ELSE p1

VisitRenderingIntent(ps) ==
  IF ~ps.ok THEN ps ELSE
  LET r == VisitValue(ps, "rendering_intent", ps.c.rendering_intent, TRUE) IN
  IF r.ps.ok THEN [r.ps EXCEPT !.c.rendering_intent = r.v] ELSE r.ps

\* The end of the fields sent when there is no ICC, without the call of
\* CreateICC.
FinishFieldsNoCreateICC(ps) ==
  IF ~ps.ok THEN ps ELSE
  IF ps.c.color_space = "kUnknown" \/ TfIsUnknown(ps.c.tf)
    THEN [ps EXCEPT !.ok = FALSE]
    ELSE ps

\* Lines 606-616: without an ICC all fields have to be known, and the ICC is
\* made from them; CreateICC failing fails the pass.
FinishFields(ps) ==
  IF ~ps.ok THEN ps ELSE
  IF ps.c.color_space = "kUnknown" \/ TfIsUnknown(ps.c.tf)
    THEN [ps EXCEPT !.ok = FALSE]
    ELSE LET r == CreateICC(ps.c) IN [ps EXCEPT !.ok = r.ok, !.c = r.ce]

\* The fields sent when there is no ICC, with the rendering intent visited
\* before the transfer function.
VisitDescriptiveFieldsIntentFirst(ps) ==
  IF ~ps.ok \/ ps.c.want_icc THEN ps
  ELSE FinishFields(CustomTransferFunctionVisitFields(VisitRenderingIntent(
         VisitPrimaries(VisitWhitePoint(ps)))))

\* Lines 579-617: the fields sent when there is no ICC.
VisitDescriptiveFields(ps) ==
  IF ~ps.ok \/ ps.c.want_icc THEN ps
  ELSE FinishFields(VisitRenderingIntent(CustomTransferFunctionVisitFields(
         VisitPrimaries(VisitWhitePoint(ps)))))

\* The test of the ICC buffer made of a read pass that goes by an ICC too.
CheckICCAlsoReading(ps) ==
  IF ~ps.ok THEN ps ELSE
  IF ps.c.icc = EmptyICC THEN [ps EXCEPT !.ok = FALSE] ELSE ps

\* Lines 619-623.
CheckICC(ps) ==
  IF ~ps.ok THEN ps ELSE
  IF ps.c.want_icc /\ ps.reading THEN ps
  ELSE IF ps.c.icc = EmptyICC THEN [ps EXCEPT !.ok = FALSE] ELSE ps

\* Lines 572-625: the pass after the all-default test.
VisitAllFields(ps) ==
  CheckICC(VisitDescriptiveFields(VisitColorSpace(VisitWantIcc(ps))))

\* ColorEncoding::VisitFields on object c: a write pass (reading = FALSE,
\* stream = <<>>) or a read pass of `stream`.  The result is the pass record:
\* .ok the status, .c the object after the pass, .stream what was written
\* (or left unread), .trace the fields visited.
VisitFields(c, reading, stream) ==
  LET p0 == [ok |-> TRUE, c |-> c, reading |-> reading, stream |-> stream,
             trace |-> <<>>]
      a == VisitValue(p0, "all_default", AllDefault(c), TRUE)
  IN  IF ~a.ps.ok THEN a.ps
      ELSE IF a.v THEN [a.ps EXCEPT !.c = SetDefault(c)]
      ELSE VisitAllFields(a.ps)

\* ColorEncoding::SetICCRaw: the caller's ICC bytes (profile number id) are
\* stored unparsed and the encoding goes by its ICC from then on.
SetICCRaw(c, id) ==
  [ok |-> TRUE,
   ce |-> [c EXCEPT !.icc = [kind |-> "raw", of |-> <<id>>],
                    !.want_icc = TRUE]]

(***************************************************************************)
(* Inputs                                                                  *)
(***************************************************************************)
XY(x, y) == [x |-> DblNano(x), y |-> DblNano(y)]

\* A chromaticity of magnitude 2.147 or more, in whole micro-units.
XYMicro(x, y) ==
  [x |-> Dbl(IF x < 0 THEN -1 ELSE 1, Abs(x), 0),
   y |-> Dbl(IF y < 0 THEN -1 ELSE 1, Abs(y), 0)]

\* White points: D65, one within the tolerance of D65, E, D50 (custom), one
\* with a zero coordinate, one whose y is out of bounds, one in bounds that
\* the wire format cannot hold, one whose x is out of bounds.
WhitePointInputs ==
  {XY(312700000, 329000000), XY(313000000, 329500000),
   XY(kThird, kThird), XY(345700000, 358500000), XY(0, 329000000),
   XYMicro(345700, -5000000), XYMicro(3000000, 329000),
   XYMicro(4500000, 329000)}

RGBxy(rx, ry, gx, gy, bx, by) ==
  [r |-> XY(rx, ry), g |-> XY(gx, gy), b |-> XY(bx, by)]

\* Adobe RGB (1998) and ProPhoto-like primaries: neither is a preset.
AdobeRGB ==
  RGBxy(640000000, 330000000, 210000000, 710000000, 150000000, 60000000)

WideRGB ==
  RGBxy(734700000, 265300000, 159600000, 840400000, 36600000, 100000)

\* Primaries: sRGB, P3, two custom ones, one with a zero coordinate, one
\* whose green is out of bounds, one whose blue the wire format cannot hold,
\* one whose red is out of bounds.
PrimariesInputs ==
  {RGBxy(640000000, 330000000, 300000000, 600000000, 150000000, 60000000),
   RGBxy(680000000, 320000000, 265000000, 690000000, 150000000, 60000000),
   AdobeRGB, WideRGB,
   RGBxy(640000000, 330000000, 0, 710000000, 150000000, 60000000),
   [AdobeRGB EXCEPT !.g = XYMicro(5000000, 710000)],
   [WideRGB EXCEPT !.b = XYMicro(150000, 3000000)],
   [AdobeRGB EXCEPT !.r = XYMicro(-4000001, 330000)]}

\* Gammas, in 1e-9: below the smallest, a plain one, 1/2.6, 1.0, above 1.
GammaInputs == {122070, 454550000, kInv2_6, kOne, 1000000050}

\* A JxlColorEncoding.
External(cs, wp, wxy, pr, pxy, f, g, ri) ==
  [color_space |-> cs, white_point |-> wp, white_point_xy |-> wxy,
   primaries |-> pr, primaries_xy |-> pxy, transfer_function |-> f,
   gamma |-> g, rendering_intent |-> ri]

D65xy == XY(312700000, 329000000)

D50xy == XY(345700000, 358500000)

\* External encodings: presets, custom values that are kept and custom
\* values that snap to a preset, XYB, gray, and ones that fail at the white
\* point, at the primaries, at the gamma, at the transfer function and at the
\* rendering intent.
ExternalInputs ==
  {External("kRGB", "kD65", D65xy, "kSRGB", AdobeRGB, "kSRGB", 0,
            "kPerceptual"),
   External("kRGB", "kCustom", D50xy, "kCustom", AdobeRGB, "GAMMA",
            454550000, "kRelative"),
   External("kRGB", "kCustom", D65xy, "kCustom",
            RGBxy(680000000, 320000000, 265000000, 690000000, 150000000,
                  60000000), "GAMMA", kOne, "kAbsolute"),
   External("kGray", "kE", D65xy, "kCustom", WideRGB, "kLinear", 0,
            "kRelative"),
   External("kXYB", "kD65", D65xy, "kSRGB", AdobeRGB, "kUnknown", 0,
            "kPerceptual"),
   External("kUnknown", "kDCI", D65xy, "kP3", AdobeRGB, "kUnknown", 0,
            "kSaturation"),
   External("kGray", "kCustom", XYMicro(3000000, 329000), "kSRGB", AdobeRGB,
            "kSRGB", 0, "kRelative"),
   External("kRGB", "invalid", D65xy, "kSRGB", AdobeRGB, "kSRGB", 0,
            "kRelative"),
   External("kRGB", "kE", D65xy, "kCustom",
            [AdobeRGB EXCEPT !.g = XYMicro(5000000, 710000)], "kPQ", 0,
            "kRelative"),
   External("kRGB", "kDCI", D65xy, "k2100", AdobeRGB, "GAMMA", 1000000050,
            "kRelative"),
   External("kGray", "kD65", D65xy, "kSRGB", AdobeRGB, "invalid", 0,
            "kRelative"),
   External("kRGB", "kCustom", D50xy, "kP3", AdobeRGB, "kHLG", 0,
            "invalid")}

(***************************************************************************)
(* The state machine.  ce is the ColorEncoding, prev what it was before    *)
(* the last call, op / arg / ok the last call, its argument and the status *)
(* it returned, out what else the call produced, nops the number of calls. *)
(***************************************************************************)
\* The number of calls made on one object.
MaxOps == 2

\* The ICC buffer of a default-constructed ColorEncoding: empty, or the
\* profile of the default fields.
InitialICCs == {EmptyICC, CreateICC(DefaultColorEncoding(EmptyICC)).ce.icc}

NoOut == [none |-> TRUE]

\* The argument of a call without one.  The argument of every call is a
\* record with a field of its own.
NoArg == [none |-> TRUE]

Init ==
  /\ \E icc \in InitialICCs : ce = DefaultColorEncoding(icc)
  /\ prev = ce
  /\ op = "Init" /\ arg = NoArg /\ ok = TRUE /\ out = NoOut /\ nops = 0

\* A call `name` with argument a that returned r = [ok, ce] and produced o.
Call(name, a, r, o) ==
  /\ nops < MaxOps
  /\ ce' = r.ce /\ prev' = ce /\ op' = name /\ arg' = a /\ ok' = r.ok
  /\ out' = o /\ nops' = nops + 1

DoSetColorSpace ==
  \E cs \in ColorSpace :
    Call("SetColorSpace", [color_space |-> cs],
         [ok |-> TRUE, ce |-> SetColorSpace(ce, cs)], NoOut)

DoSetWhitePointType ==
  \E wp \in WhitePoint :
    Call("SetWhitePointType", [white_point |-> wp],
         SetWhitePointType(ce, wp), NoOut)

DoSetWhitePoint ==
  \E xy \in WhitePointInputs \cup {GetWhitePoint(ce)} :
    Call("SetWhitePoint", [xy |-> xy], SetWhitePoint(ce, xy), NoOut)

DoSetRenderingIntent ==
  \E ri \in RenderingIntent :
    Call("SetRenderingIntent", [rendering_intent |-> ri],
         SetRenderingIntent(ce, ri), NoOut)

\* SetPrimariesType and SetPrimaries assert HasPrimaries().
DoSetPrimariesType ==
  /\ HasPrimaries(ce)
  /\ \E p \in Primaries :
       Call("SetPrimariesType", [primaries |-> p],
            SetPrimariesType(ce, p), NoOut)

DoSetPrimaries ==
  /\ HasPrimaries(ce)
  /\ \E xy \in PrimariesInputs \cup {GetPrimaries(ce)} :
       Call("SetPrimaries", [xy |-> xy], SetPrimaries(ce, xy), NoOut)

DoSetGamma ==
  \E g \in GammaInputs :
    LET r == SetGamma(ce.tf, g) IN
    Call("SetGamma", [gamma |-> g],
         [ok |-> r.ok, ce |-> [ce EXCEPT !.tf = r.tf]], NoOut)

DoSetTransferFunction ==
  \E f \in TransferFunction :
    Call("SetTransferFunction", [transfer_function |-> f],
         [ok |-> TRUE, ce |-> [ce EXCEPT !.tf = SetTransferFunction(@, f)]],
         NoOut)

DoFromExternal ==
  \E e \in ExternalInputs :
    Call("FromExternal", [external |-> e], FromExternal(ce, e), NoOut)

DoCreateICC == Call("CreateICC", NoArg, CreateICC(ce), NoOut)

DoSetICCRaw ==
  \E id \in {1, 2} : Call("SetICCRaw", [icc |-> id], SetICCRaw(ce, id), NoOut)

\* A write pass of VisitFields on the object.  out.w is the write pass,
\* out.r the last pass made (the read pass, if one was made) and out.into
\* the object that pass was made on, as it was before the pass.
DoVisitFieldsWrite ==
  LET w == VisitFields(ce, FALSE, <<>>) IN
  Call("VisitFieldsWrite", NoArg, [ok |-> w.ok, ce |-> w.c],
       [w |-> w, read |-> FALSE, r |-> w, into |-> ce])

\* A write pass on the object, then, if it succeeded, a read pass of what it
\* wrote into a default-constructed ColorEncoding.
DoRoundTrip ==
  \E icc \in InitialICCs :
    LET w == VisitFields(ce, FALSE, <<>>)
        r == VisitFields(DefaultColorEncoding(icc), TRUE, w.stream)
    IN  Call("RoundTrip", NoArg, [ok |-> w.ok /\ r.ok, ce |-> w.c],
             [w |-> w, read |-> w.ok, r |-> IF w.ok THEN r ELSE w,
              into |-> IF w.ok THEN DefaultColorEncoding(icc) ELSE ce])

Next ==
  \/ DoSetWhitePointType \/ DoSetColorSpace \/ DoSetWhitePoint
  \/ DoSetRenderingIntent \/ DoSetPrimariesType \/ DoSetPrimaries
  \/ DoSetGamma \/ DoSetTransferFunction \/ DoFromExternal
  \/ DoCreateICC \/ DoSetICCRaw \/ DoVisitFieldsWrite \/ DoRoundTrip

Spec == Init /\ [][Next]_vars

(***************************************************************************)
(* Every field combination.  Init draws the object from the encodings the  *)
(* setters build out of every color space, white point, primaries,         *)
(* transfer function and rendering intent (presets, custom values, gammas),*)
(* with and without a caller's ICC; one call is then made on it.           *)
(***************************************************************************)
WhiteChoices ==
  {[t |-> wp, xy |-> D65xy] : wp \in {"kD65", "kE", "kDCI"}}
    \cup {[t |-> "kCustom", xy |-> xy] :
            xy \in {D50xy, XY(-150000000, 1048576000)}}

PrimariesChoices ==
  {[t |-> pr, xy |-> AdobeRGB] : pr \in {"kSRGB", "k2100", "kP3"}}
    \cup {[t |-> "kCustom", xy |-> xy] : xy \in {AdobeRGB, WideRGB}}

TfChoices ==
  {[f |-> f, g |-> 0] : f \in TransferFunction}
    \cup {[f |-> "GAMMA", g |-> g] : g \in {454550000, 122071}}

\* The encoding the setters build from a default-constructed one.
BuildFields(cs, w, p, t, ri, wi) ==
  LET c1 == SetColorSpace(DefaultColorEncoding(EmptyICC), cs)
      c2 == IF w.t = "kCustom" THEN SetWhitePoint(c1, w.xy).ce
            ELSE SetWhitePointType(c1, w.t).ce
      c3 == IF ~HasPrimaries(c2) THEN c2
            ELSE IF p.t = "kCustom" THEN SetPrimaries(c2, p.xy).ce
            ELSE SetPrimariesType(c2, p.t).ce
      c4 == [c3 EXCEPT !.tf = IF t.f = "GAMMA" THEN SetGamma(@, t.g).tf
                                ELSE SetTransferFunction(@, t.f)]
      c5 == CreateICC(SetRenderingIntent(c4, ri).ce).ce
  IN  IF wi THEN SetICCRaw(c5, 1).ce ELSE c5

InitFields ==
  /\ \E cs \in ColorSpace, w \in WhiteChoices, p \in PrimariesChoices,
        t \in TfChoices, ri \in RenderingIntent, wi \in BOOLEAN :
       ce = BuildFields(cs, w, p, t, ri, wi)
  /\ prev = ce
  /\ op = "Init" /\ arg = NoArg /\ ok = TRUE /\ out = NoOut /\ nops = 0

FldRoundTrip == op = "Init" /\ DoRoundTrip

FldVisitFieldsWrite == op = "Init" /\ DoVisitFieldsWrite

\* Description() of the object.
FldDescription ==
  /\ op = "Init"
  /\ Call("Description", NoArg, [ok |-> TRUE, ce |-> ce],
          [description |-> Description(ce)])

\* SetWhitePoint(GetWhitePoint()).
FldResetWhitePoint ==
  /\ op = "Init"
  /\ Call("ResetWhitePoint", [xy |-> GetWhitePoint(ce)],
          SetWhitePoint(ce, GetWhitePoint(ce)), NoOut)

\* SetPrimaries(GetPrimaries()), which both assert HasPrimaries().
FldResetPrimaries ==
  /\ op = "Init" /\ HasPrimaries(ce)
  /\ Call("ResetPrimaries", [xy |-> GetPrimaries(ce)],
          SetPrimaries(ce, GetPrimaries(ce)), NoOut)

\* A read pass, into a default-constructed ColorEncoding, of the fields of
\* the object as a write pass lays them out.
FldVisitFieldsRead ==
  /\ op = "Init"
  /\ \E icc \in InitialICCs :
       LET w == VisitFields(ce, FALSE, <<>>)
           r == VisitFields(DefaultColorEncoding(icc), TRUE, w.stream)
       IN  Call("VisitFieldsRead", [stream |-> w.stream],
                [ok |-> r.ok, ce |-> r.c],
                [w |-> w, read |-> TRUE, r |-> r,
                 into |-> DefaultColorEncoding(icc)])

\* A write pass on an object that a read pass has left going by an ICC.
FldWriteAfterRead ==
  /\ op = "VisitFieldsRead" /\ ce.want_icc
  /\ DoVisitFieldsWrite

NextFields ==
  \/ FldRoundTrip \/ FldVisitFieldsWrite \/ FldVisitFieldsRead
  \/ FldDescription \/ FldResetWhitePoint \/ FldResetPrimaries
  \/ FldWriteAfterRead

SpecFields == InitFields /\ [][NextFields]_vars

(***************************************************************************)
(* Encodings that go by ICC bytes.  The object starts default-constructed, *)
(* or as SetICCRaw leaves a default-constructed one; SetFieldsFromICC and  *)
(* the calls of the state machine above follow.                            *)
(***************************************************************************)
\* What the CMS can make of ICC bytes: it cannot parse them, the profile is
\* CMYK, or it fills in a JxlColorEncoding (which the import then accepts
\* or not).
CmsOutcomes ==
  LET e0 == External("kRGB", "kD65", D65xy, "kSRGB", AdobeRGB, "kSRGB", 0,
                     "kPerceptual")
  IN  {[ok |-> FALSE, cmyk |-> FALSE, external |-> e0],
       [ok |-> TRUE, cmyk |-> TRUE, external |-> e0]}
      \cup {[ok |-> TRUE, cmyk |-> FALSE, external |-> e] :
              e \in ExternalInputs}

InitICC ==
  /\ \/ \E id \in {1, 2} : ce = SetICCRaw(DefaultColorEncoding(EmptyICC), id).ce
     \/ \E icc \in InitialICCs : ce = DefaultColorEncoding(icc)
  /\ prev = ce
  /\ op = "Init" /\ arg = NoArg /\ ok = TRUE /\ out = NoOut /\ nops = 0

DoSetFieldsFromICC ==
  \E parsed \in CmsOutcomes :
    Call("SetFieldsFromICC", [parsed |-> parsed],
         SetFieldsFromICC(ce, parsed), NoOut)

NextICC ==
  \/ DoSetFieldsFromICC \/ DoFromExternal \/ DoSetGamma
  \/ DoSetWhitePointType \/ DoSetWhitePoint \/ DoSetRenderingIntent
  \/ DoSetPrimariesType \/ DoSetPrimaries \/ DoSetColorSpace
  \/ DoSetTransferFunction \/ DoCreateICC \/ DoSetICCRaw
  \/ DoVisitFieldsWrite

SpecICC == InitICC /\ [][NextICC]_vars

(***************************************************************************)
(* The numeric conversions.  One call of Customxy::Set (followed by Get)   *)
(* or of CustomTransferFunction::SetGamma, on inputs around every          *)
(* threshold of the code.                                                  *)
(***************************************************************************)
\* Coordinates on the 1e-6 grid, in micro-units: the ends of [-4, 4] and the
\* ends of the four tiers of the wire format.
GridMicro ==
  {-4000001, -4000000, -2097153, -2097152, -1048577, -345700, -1, 0, 1,
   262143, 262144, 524288, 1048576, 2097151, 2097152, 3000000, 4000000,
   4000001}

\* Coordinates between two grid points.
OffGrid == {Dbl(1, 312700, 400), Dbl(-1, 312700, 600), Dbl(1, 2097151, 499)}

CoordInputs ==
  {Dbl(IF m < 0 THEN -1 ELSE 1, Abs(m), 0) : m \in GridMicro} \cup OffGrid

\* Gammas in 1e-9 around 0, 1/kMaxGamma, 1/2.6 and 1.0 and their tolerances.
GammaGrid ==
  {-1000000000, -1, 0, 1, 122070, 122071, 1000000, 333333333, 383615384,
   383615385, 384615285, 384615385, 384615485, 385615385, 385615386,
   454550000, 500000000, 838860740, 998999999, 999000000, 999999900,
   999999950, kOne, 1000000001, 1000000050, 1000000100, 1001000000,
   2000000000}

\* Customxy::Set on a Customxy holding st0, then Get.
NumCustomxySet ==
  /\ op = "Init"
  /\ \E x \in CoordInputs, y \in CoordInputs,
        st0 \in {DefaultCustomxy, [x |-> 345700, y |-> 358500]} :
       LET r == CustomxySet(st0, [x |-> x, y |-> y]) IN
       Call("Customxy::Set", [xy |-> [x |-> x, y |-> y]], [ok |-> r.ok, ce |-> ce],
            [st0 |-> st0, st |-> r.st, get |-> CustomxyGet(r.st)])

\* CustomTransferFunction::SetGamma on a transfer function holding tf0.
NumSetGamma ==
  /\ op = "Init"
  /\ \E g \in GammaGrid,
        tf0 \in {DefaultTf, SetGamma(DefaultTf, 454550000).tf,
                 SetTransferFunction(DefaultTf, "kPQ")} :
       LET r == SetGamma(tf0, g) IN
       Call("SetGamma", [gamma |-> g],
            [ok |-> r.ok, ce |-> [ce EXCEPT !.tf = r.tf]], [tf0 |-> tf0])

NextNum == NumCustomxySet \/ NumSetGamma

SpecNum == Init /\ [][NextNum]_vars

(***************************************************************************)
(* Claims                                                                  *)
(***************************************************************************)
\* A coordinate on the 1e-6 grid, and one in [-4, 4].
OnGrid(d) == d.n = 0

InMinus4To4(d) == d.u < 4000000 \/ (d.u = 4000000 /\ d.n = 0)

\* The decoded coordinate i * 1e-6 is within 1e-6 of the double d.
Within1Micro(i, d) ==
  /\ Abs(i - d.s * d.u) <= 2
  /\ Abs((i - d.s * d.u) * 1000 - d.s * d.n) <= 1000

\* A grid coordinate the four tiers of the wire format can hold: its packed
\* value is below 2097152 + 2^21, i.e. -2097152 <= micro <= 2097151.
FitsWire(d) == -2097152 <= d.s * d.u /\ d.s * d.u <= 2097151

\* C8 as stated: for every x and y in [-4, 4] on the 1e-6 grid Customxy::Set
\* succeeds and Get returns coordinates within 1e-6 of x and y; Set fails
\* only when a coordinate is outside [-4, 4].
C8_SetGetAllOfRange ==
  op = "Customxy::Set" =>
    /\ (InMinus4To4(arg.xy.x) /\ InMinus4To4(arg.xy.y)) => ok
    /\ (OnGrid(arg.xy.x) /\ OnGrid(arg.xy.y) /\ InMinus4To4(arg.xy.x)
          /\ InMinus4To4(arg.xy.y)) =>
         /\ Within1Micro(out.st.x, arg.xy.x) /\ Within1Micro(out.st.y, arg.xy.y)
         /\ out.get = CustomxyGet(out.st)

\* C8 amended: for x and y on the 1e-6 grid, Customxy::Set succeeds exactly
\* when both lie in [-2.097152, 2.097151], the values the four tiers of the
\* wire format (the last one 21 bits above 2097152) can hold, and Get then
\* returns coordinates within 1e-6 of x and y (as it does for the inputs
\* between grid points that Set accepts); Set fails for every other
\* coordinate, in [-4, 4] or not.
C8_SetGetWithinWire ==
  op = "Customxy::Set" =>
    /\ (OnGrid(arg.xy.x) /\ OnGrid(arg.xy.y)) =>
         (ok <=> (FitsWire(arg.xy.x) /\ FitsWire(arg.xy.y)))
    /\ ok =>
         /\ Within1Micro(out.st.x, arg.xy.x) /\ Within1Micro(out.st.y, arg.xy.y)
         /\ Within1Micro(out.get.x.s * out.get.x.u, arg.xy.x)
         /\ Within1Micro(out.get.y.s * out.get.y.u, arg.xy.y)
         /\ out.get.x.n = 0 /\ out.get.y.n = 0
    /\ ~(InMinus4To4(arg.xy.x) /\ InMinus4To4(arg.xy.y)) => ~ok

\* C8 witness: Set accepted a coordinate of the last tier and one rounded from
\* between two grid points, and Get gave them back.
C8_Witness ==
  /\ op = "Customxy::Set" /\ ok
  /\ arg.xy.x = Dbl(1, 2097151, 0) /\ arg.xy.y = Dbl(-1, 312700, 600)
  /\ out.get.x = Dbl(1, 2097151, 0) /\ out.get.y = Dbl(-1, 312701, 0)

\* The distance of gamma g (1e-9) from the double c (1e-9).
GammaDist(g, c) == Abs(g - c)

\* C9 as stated: SetGamma(g) fails for every g <= 0 and every g > 1; for
\* every g within 1e-7 of 1.0, on either side, it succeeds and snaps to
\* Linear; for every g within 1e-7 of 1/2.6 it succeeds and snaps to DCI;
\* every other accepted g is stored as round(g * kGammaMul) with have_gamma
\* true and the transfer function Unknown.
C9_SetGammaAsStated ==
  op = "SetGamma" =>
    /\ (arg.gamma <= 0 \/ arg.gamma > kOne) => ~ok
    /\ GammaDist(arg.gamma, kOne) <= 100 =>
         ok /\ ~ce.tf.have_gamma /\ ce.tf.transfer_function = "kLinear"
    /\ GammaDist(arg.gamma, kInv2_6) <= 100 =>
         ok /\ ~ce.tf.have_gamma /\ ce.tf.transfer_function = "kDCI"
    /\ (ok /\ GammaDist(arg.gamma, kOne) > 100
           /\ GammaDist(arg.gamma, kInv2_6) > 100) =>
         /\ ce.tf.have_gamma /\ ce.tf.transfer_function = "kUnknown"
         /\ Abs(ce.tf.gamma * 100 - arg.gamma) <= 50

\* C9 amended: SetGamma(g) fails for every g below 1/kMaxGamma (so for every
\* g <= 0) and every g > 1, leaving the transfer function as it was; for
\* every g in [1 - 1e-7, 1] it succeeds and snaps to Linear, and for every g
\* within 1e-7 of 1/2.6 to DCI, with have_gamma false (as it does for every
\* accepted g within ApproxEq's tolerance of them); every accepted g farther
\* than that tolerance from both is stored as roundf of the single-precision
\* value of g * kGammaMul, an integer at most 0.75 from g * kGammaMul, with
\* have_gamma true and the transfer function Unknown.
C9_SetGamma ==
  op = "SetGamma" =>
    /\ (arg.gamma <= 0 \/ arg.gamma > kOne
          \/ arg.gamma <= (kOne - 1) \div kMaxGamma) =>
         ~ok /\ ce.tf = out.tf0
    /\ (arg.gamma <= kOne /\ arg.gamma > (kOne - 1) \div kMaxGamma) => ok
    /\ (arg.gamma <= kOne /\ GammaDist(arg.gamma, kOne) <= 100) =>
         ok /\ ~ce.tf.have_gamma /\ ce.tf.transfer_function = "kLinear"
    /\ GammaDist(arg.gamma, kInv2_6) <= 100 =>
         ok /\ ~ce.tf.have_gamma /\ ce.tf.transfer_function = "kDCI"
    /\ (ok /\ GammaDist(arg.gamma, kOne) <= kApproxEqTol) =>
         ~ce.tf.have_gamma /\ ce.tf.transfer_function = "kLinear"
    /\ (ok /\ GammaDist(arg.gamma, kInv2_6) <= kApproxEqTol) =>
         ~ce.tf.have_gamma /\ ce.tf.transfer_function = "kDCI"
    /\ (ok /\ GammaDist(arg.gamma, kOne) > kApproxEqTol
           /\ GammaDist(arg.gamma, kInv2_6) > kApproxEqTol) =>
         /\ ce.tf.have_gamma /\ ce.tf.transfer_function = "kUnknown"
         /\ Abs(ce.tf.gamma * 100 - arg.gamma) <= 75

\* C9 witness: a gamma 5e-8 below 1.0 was accepted and snapped to Linear on
\* a transfer function that held a gamma.
C9_Witness ==
  /\ op = "SetGamma" /\ arg.gamma = 999999950 /\ ok
  /\ out.tf0.have_gamma /\ ~ce.tf.have_gamma
  /\ ce.tf.transfer_function = "kLinear"

\* The segments of the grammar of Description, in order.
DescriptionSegments(c) ==
  <<ColorSpaceCode(c.color_space)>>
    \o (IF c.color_space = "kXYB" THEN <<>>
        ELSE IF c.white_point = "kCustom"
          THEN <<ToStringXY(c.white.x) \o ";" \o ToStringXY(c.white.y)>>
        ELSE <<WhitePointCode(c.white_point)>>)
    \o (IF ~HasPrimaries(c) THEN <<>>
        ELSE IF c.primaries = "kCustom"
          THEN <<ToStringXY(c.red.x) \o ";" \o ToStringXY(c.red.y) \o ";"
                   \o ToStringXY(c.green.x) \o ";" \o ToStringXY(c.green.y)
                   \o ";" \o ToStringXY(c.blue.x) \o ";"
                   \o ToStringXY(c.blue.y)>>
        ELSE <<PrimariesCode(c.primaries)>>)
    \o <<RenderingIntentCode(c.rendering_intent)>>
    \o (IF c.color_space = "kXYB" THEN <<>>
        ELSE IF c.tf.have_gamma THEN <<"g" \o ToStringGamma(c.tf.gamma)>>
        ELSE <<TransferFunctionCode(c.tf.transfer_function)>>)

RECURSIVE JoinUnderscore(_)
JoinUnderscore(segs) ==
  IF Len(segs) = 1 THEN segs[1]
  ELSE segs[1] \o "_" \o JoinUnderscore(Tail(segs))

\* C7: Description() is a function of the fields with the grammar: the
\* color-space code; only if color_space is not XYB, the white-point code or
\* 'x;y' when Custom; only if HasPrimaries(), the primaries code or
\* 'rx;ry;gx;gy;bx;by' when Custom; the rendering-intent code; only if
\* color_space is not XYB, 'g<gamma>' for an explicit gamma or else the
\* transfer-function code; the segments joined by '_'.  The default
\* encoding gives "RGB_D65_SRG_Rel_SRG" and an XYB encoding "XYB_<RI>".
C7_DescriptionGrammar ==
  op = "Description" =>
    /\ out.description = JoinUnderscore(DescriptionSegments(ce))
    /\ ce = prev
    /\ ( /\ ce.color_space = "kRGB" /\ ce.white_point = "kD65"
         /\ ce.primaries = "kSRGB" /\ ce.rendering_intent = "kRelative"
         /\ ce.tf = DefaultTf ) => out.description = "RGB_D65_SRG_Rel_SRG"
    /\ ce.color_space = "kXYB" =>
         out.description \in {"XYB_Per", "XYB_Rel", "XYB_Sat", "XYB_Abs"}
    /\ ( /\ ce.color_space = "kGray" /\ ce.white_point = "kCustom"
         /\ ce.white = [x |-> 345700, y |-> 358500]
         /\ ce.rendering_intent = "kPerceptual"
         /\ ce.tf.have_gamma /\ ce.tf.gamma = 4545500 ) =>
         out.description = "Gra_0.3457;0.3585_Per_g0.45455"

\* C7 witness: Description() of a Gray encoding with a custom white point
\* and an explicit gamma.
C7_Witness ==
  /\ op = "Description" /\ ce.color_space = "kGray"
  /\ ce.white_point = "kCustom" /\ ce.tf.have_gamma
  /\ out.description = "Gra_0.3457;0.3585_Per_g0.45455"

\* Description() of an XYB encoding that holds a custom white point and a
\* gamma, neither of which is printed.
C7_WitnessXYB ==
  /\ op = "Description" /\ ce.color_space = "kXYB"
  /\ ce.white_point = "kCustom" /\ ce.tf.have_gamma
  /\ out.description = "XYB_Sat"

\* The presets of the white point and of the primaries.
WhitePointPresets == {"kD65", "kE", "kDCI"}

PrimariesPresets == {"kSRGB", "k2100", "kP3"}

\* C10: for every white-point preset (D65, E, DCI)
\* SetWhitePoint(GetWhitePoint()) succeeds and leaves the white_point tag
\* unchanged, and for every primaries preset (SRGB, k2100, P3) on an encoding
\* with HasPrimaries() SetPrimaries(GetPrimaries()) succeeds and leaves the
\* primaries tag unchanged.
C10_ResetKeepsPreset ==
  /\ (op = "ResetWhitePoint" /\ prev.white_point \in WhitePointPresets) =>
       ok /\ ce.white_point = prev.white_point /\ ce = prev
  /\ (op = "ResetPrimaries" /\ prev.primaries \in PrimariesPresets) =>
       ok /\ HasPrimaries(prev) /\ ce.primaries = prev.primaries /\ ce = prev

\* C10 witness: SetWhitePoint(GetWhitePoint()) on a DCI white point, the
\* last preset SetWhitePoint tests, returned success with the tag still DCI.
C10_Witness ==
  /\ op = "ResetWhitePoint" /\ prev.white_point = "kDCI"
  /\ arg.xy = [x |-> DblNano(314000000), y |-> DblNano(351000000)]
  /\ ok /\ ce.white_point = "kDCI"

\* The calls that ran VisitFields, and the passes they ran.
IsVisit == op \in {"VisitFieldsWrite", "RoundTrip", "VisitFieldsRead"}

Passes == IF IsVisit THEN {out.w, out.r} ELSE {}

\* A valid encoding without ICC: a color space, a transfer function and a
\* white point a profile can be made of (or XYB, which has none of them).
ValidFields(c) ==
  /\ ~c.want_icc /\ ~TfIsUnknown(c.tf)
  /\ \/ c.color_space = "kXYB"
     \/ c.color_space \in {"kRGB", "kGray"} /\ MaybeCreateProfileOk(c)

\* C1 as stated: for every valid ColorEncoding with want_icc false (RGB, Gray
\* or XYB, every white point, primaries, transfer function and rendering
\* intent, custom values and gammas), a write pass of VisitFields followed by
\* a read pass of the fields into a default-constructed ColorEncoding
\* succeeds and yields an object with the Description() of the original.
C1_RoundTripDescription ==
  (op = "RoundTrip" /\ ValidFields(prev)) =>
    /\ out.w.ok /\ out.read /\ out.r.ok /\ ok
    /\ Description(out.r.c) = Description(prev)

\* C1 witness: the round trip of an XYB encoding failed in the write pass,
\* after the pass had written every field.
C1_Witness ==
  /\ op = "RoundTrip" /\ prev.color_space = "kXYB" /\ ValidFields(prev)
  /\ ~ok /\ ~out.w.ok /\ ~out.read
  /\ out.w.trace = <<"all_default", "want_icc", "color_space",
                     "rendering_intent">>

\* The round trip of every valid RGB or Gray encoding succeeds and keeps the
\* Description().
RoundTripDescriptionRGBGray ==
  (op = "RoundTrip" /\ ValidFields(prev) /\ prev.color_space # "kXYB") =>
    /\ out.w.ok /\ out.read /\ out.r.ok /\ ok
    /\ Description(out.r.c) = Description(prev)

\* The fields of a Customxy member, in the order of Customxy::VisitFields.
XYFields(w) == <<w \o ".x", w \o ".y">>

\* The order of the fields of a pass that is not all-default, for the object
\* c the pass leaves; tfFields are the fields of the transfer function.
FieldOrder(c, tfFields) ==
  <<"all_default", "want_icc", "color_space">>
    \o (IF c.want_icc THEN <<>>
        ELSE (IF ImplicitWhitePoint(c) THEN <<>>
              ELSE <<"white_point">>
                     \o (IF c.white_point = "kCustom" THEN XYFields("white")
                         ELSE <<>>))
          \o (IF ~HasPrimaries(c) THEN <<>>
              ELSE <<"primaries">>
                     \o (IF c.primaries = "kCustom"
                           THEN XYFields("red") \o XYFields("green")
                                  \o XYFields("blue")
                           ELSE <<>>))
          \o tfFields
          \o <<"rendering_intent">>)

\* The transfer-function record as C2 states it.
TfFieldsAsStated(c) ==
  <<"tf.have_gamma">>
    \o (IF c.tf.have_gamma THEN <<"tf.gamma">>
        ELSE <<"tf.transfer_function">>)

\* The transfer-function record: nothing when SetImplicit() applies.
TfFields(c) ==
  IF c.tf.nonserialized_color_space = "kXYB" THEN <<>>
  ELSE TfFieldsAsStated(c)

IsPrefix(a, b) == Len(a) <= Len(b) /\ a = SubSeq(b, 1, Len(a))

\* A pass whose trace follows `order`: all of it when the pass succeeded, a
\* beginning of it when a visit failed; no field twice.
FollowsOrder(p, order) ==
  /\ IsPrefix(p.trace, order)
  /\ p.ok => p.trace = order
  /\ Cardinality({p.trace[i] : i \in 1..Len(p.trace)}) = Len(p.trace)

\* C2 as stated: in any VisitFields pass that is not all-default the fields
\* are visited in exactly this order, each at most once: want_icc;
\* color_space; only if want_icc is false: white_point (unless implicit) and
\* the custom white xy if Custom; primaries if HasPrimaries() and the red,
\* green, blue xy if Custom; the transfer-function record, have_gamma and
\* then the gamma if have_gamma, else the enum; rendering_intent last.
C2_FieldOrderAsStated ==
  \A p \in Passes :
    Len(p.trace) > 1 => FollowsOrder(p, FieldOrder(p.c, TfFieldsAsStated(p.c)))

\* C2 amended: the same order, except that the transfer-function record
\* holds no field at all (have_gamma is not visited) when tf.SetImplicit()
\* applies, that is when tf.nonserialized_color_space is XYB; a pass in which
\* a visit fails stops there.
C2_FieldOrder ==
  \A p \in Passes :
    /\ Len(p.trace) >= 1 /\ p.trace[1] = "all_default"
    /\ Len(p.trace) > 1 => FollowsOrder(p, FieldOrder(p.c, TfFields(p.c)))

\* C2 witness: a read pass that visited every kind of field: the custom
\* white point, the custom primaries and the gamma.
C2_Witness ==
  /\ op = "RoundTrip" /\ ok /\ out.read
  /\ out.r.trace =
       <<"all_default", "want_icc", "color_space", "white_point", "white.x",
         "white.y", "primaries", "red.x", "red.y", "green.x", "green.y",
         "blue.x", "blue.y", "tf.have_gamma", "tf.gamma", "rendering_intent">>
  /\ out.w.trace = out.r.trace

\* The fields of the white point, the primaries and the transfer function.
DescriptiveFieldNames ==
  {"white_point", "white.x", "white.y", "primaries", "red.x", "red.y",
   "green.x", "green.y", "blue.x", "blue.y", "tf.have_gamma", "tf.gamma",
   "tf.transfer_function"}

\* A pass over an XYB encoding as C3 describes it.
XYBPass(p) ==
  /\ p.ok
  /\ \A i \in 1..Len(p.trace) : p.trace[i] \notin DescriptiveFieldNames
  /\ p.trace = <<"all_default", "want_icc", "color_space",
                 "rendering_intent">>
  /\ p.c.tf.have_gamma /\ p.c.tf.gamma = 3333333

\* C3 as stated: for a ColorEncoding with color_space XYB and want_icc
\* false, a VisitFields pass (a write pass, and a read pass that decodes
\* color_space == XYB into a default-constructed object) visits no
\* white-point, primaries, have_gamma, gamma or transfer-function field,
\* only want_icc, color_space and rendering_intent, leaves tf as the gamma
\* 1/3, and returns success.
C3_XYBPass ==
  /\ (op = "VisitFieldsWrite" /\ prev.color_space = "kXYB"
        /\ ~prev.want_icc) => XYBPass(out.w)
  /\ (op = "VisitFieldsRead" /\ ~out.r.c.want_icc
        /\ out.r.c.color_space = "kXYB") => XYBPass(out.r)

\* C3 witness: the read pass decoded color_space == XYB and then visited
\* tf.have_gamma, which the stream does not hold.
C3_Witness ==
  /\ op = "VisitFieldsRead" /\ ~ok
  /\ arg.stream = <<(<<"all_default", FALSE>>), (<<"want_icc", FALSE>>),
             (<<"color_space", "kXYB">>), (<<"rendering_intent", "kRelative">>)>>
  /\ out.r.trace = <<"all_default", "want_icc", "color_space",
                     "tf.have_gamma">>

\* The write pass over an XYB encoding visits the fields C3 names and leaves
\* tf as the gamma 1/3, and then fails where the ICC is made.
XYBWritePassFails ==
  (op = "VisitFieldsWrite" /\ prev.color_space = "kXYB" /\ ~prev.want_icc) =>
    /\ ~out.w.ok
    /\ out.w.trace = <<"all_default", "want_icc", "color_space",
                       "rendering_intent">>
    /\ out.w.c.tf.have_gamma /\ out.w.c.tf.gamma = 3333333

\* The fields C4 names: the enum tags, the stored custom xy, the transfer
\* function, the color space and the rendering intent.
DescriptiveState(c) ==
  [color_space |-> c.color_space, white_point |-> c.white_point,
   primaries |-> c.primaries, white |-> c.white, red |-> c.red,
   green |-> c.green, blue |-> c.blue, have_gamma |-> c.tf.have_gamma,
   gamma |-> c.tf.gamma, transfer_function |-> c.tf.transfer_function,
   rendering_intent |-> c.rendering_intent]

\* C4 as stated: when SetWhitePoint, Customxy::Set, SetGamma or FromExternal
\* returns failure, the white-point and primaries tags, the stored custom xy
\* integers, have_gamma, the stored gamma, the transfer-function enum,
\* color_space and rendering_intent all equal their values before the call.
C4_FailureLeavesState ==
  /\ (op \in {"SetWhitePoint", "SetGamma", "FromExternal"} /\ ~ok) =>
       DescriptiveState(ce) = DescriptiveState(prev)
  /\ (op = "Customxy::Set" /\ ~ok) => out.st = out.st0

\* C4 witness: SetWhitePoint returned failure on a D65 encoding and left the
\* tag at Custom.
C4_Witness ==
  /\ op = "SetWhitePoint" /\ ~ok
  /\ prev.white_point = "kD65" /\ ce.white_point = "kCustom"

\* C5 as stated: when SetPrimaries returns failure (a zero coordinate, or
\* the red, green or blue Customxy::Set failing) the primaries tag and the
\* stored red, green and blue xy are unchanged from before the call.
C5_SetPrimariesAtomic ==
  (op = "SetPrimaries" /\ ~ok) =>
    /\ ce.primaries = prev.primaries
    /\ ce.red = prev.red /\ ce.green = prev.green /\ ce.blue = prev.blue

\* C5 witness: SetPrimaries failed in the Set of green or blue and left the
\* tag at Custom with red overwritten.
C5_Witness ==
  /\ op = "SetPrimaries" /\ ~ok
  /\ prev.primaries = "kSRGB" /\ ce.primaries = "kCustom"
  /\ ce.red # prev.red /\ ce.blue = prev.blue

\* The setters that change a field and nothing else.
PlainSetters ==
  {"SetColorSpace", "SetWhitePoint", "SetWhitePointType", "SetPrimaries",
   "SetPrimariesType", "SetRenderingIntent", "SetGamma",
   "SetTransferFunction"}

\* The ICC buffer is what CreateICC makes of the fields of c.
ICCOfFields(c) == c.icc = CreateICC(c).ce.icc

\* C6 as stated: whenever want_icc is false, after a successful field change
\* (SetColorSpace, SetWhitePoint, SetWhitePointType, SetPrimaries,
\* SetPrimariesType, SetRenderingIntent, tf.SetGamma, tf.SetTransferFunction,
\* FromExternal) the cached ICC buffer is the one CreateICC derives from the
\* current field values.
C6_ICCFollowsFields ==
  (op \in PlainSetters \cup {"FromExternal"} /\ ok /\ ~ce.want_icc) =>
    ICCOfFields(ce)

\* C6 amended: after a successful FromExternal, which calls CreateICC as its
\* last step, the cached ICC buffer is the one CreateICC derives from the
\* current field values (empty when no profile can be made of them); the
\* other setters change fields and leave the buffer as it was, so that it
\* holds the profile of older field values until CreateICC is called.
C6_ICCAfterFromExternal ==
  /\ (op = "FromExternal" /\ ok) => ICCOfFields(ce)
  /\ op \in PlainSetters => ce.icc = prev.icc

\* C6 witness: FromExternal succeeded on an encoding whose buffer held the
\* profile of other field values, and the buffer holds a new profile.
C6_Witness ==
  /\ op = "FromExternal" /\ ok /\ ~ce.want_icc
  /\ prev.icc.kind = "created" /\ ce.icc.kind = "created"
  /\ ce.icc # prev.icc /\ ~ICCOfFields(prev)

(***************************************************************************)
(* SetFieldsFromICC                                                        *)
(***************************************************************************)
\* The marker of an invalid encoding: color space Unknown, transfer function
\* Unknown without gamma.
IsMarkedInvalid(c) == c.color_space = "kUnknown" /\ TfIsUnknown(c.tf)

\* C11: whenever SetFieldsFromICC returns failure (empty ICC buffer, the CMS
\* failing to parse, or the import of the parsed record failing) the object
\* is left with color_space == Unknown and the transfer function Unknown
\* without gamma, whatever they were before the call.
C11_FailureLeavesMarker ==
  (op = "SetFieldsFromICC" /\ ~ok) => IsMarkedInvalid(ce)

\* C11 witness: the CMS parsed the ICC bytes, the import of the record
\* failed at its rendering intent, and the call returned failure with the
\* color space and the transfer function of the record in place.
C11_Witness ==
  /\ op = "SetFieldsFromICC" /\ ~ok
  /\ prev.icc.kind = "raw" /\ arg.parsed.ok /\ ~arg.parsed.cmyk
  /\ arg.parsed.external.rendering_intent = "invalid"
  /\ ce.color_space = "kRGB" /\ ce.tf.transfer_function = "kHLG"

\* When the ICC buffer is empty or the CMS cannot parse it, the failing call
\* does leave the marker.
FailedParseLeavesMarker ==
  (op = "SetFieldsFromICC" /\ ~ok
     /\ (prev.icc = EmptyICC \/ ~arg.parsed.ok)) => IsMarkedInvalid(ce)

\* C12: SetFieldsFromICC never changes the ICC bytes: after the call the
\* ICC buffer is the buffer from before the call, when it succeeds (import
\* or CMYK) and when it fails.
C12_ICCBytesKept ==
  (op = "SetFieldsFromICC") => ce.icc = prev.icc

\* C12 witness: the import of the parsed record failed and the call
\* returned with an empty ICC buffer where the caller's bytes were.
C12_Witness ==
  /\ op = "SetFieldsFromICC" /\ ~ok
  /\ prev.icc.kind = "raw" /\ arg.parsed.ok /\ ~arg.parsed.cmyk
  /\ ce.icc = EmptyICC

\* Whenever SetFieldsFromICC succeeds, and whenever it fails before the
\* import, the ICC bytes are the ones from before the call.
ICCBytesKeptButFailedImport ==
  (op = "SetFieldsFromICC"
     /\ (ok \/ prev.icc = EmptyICC \/ ~arg.parsed.ok)) => ce.icc = prev.icc

\* cmyk changes only in SetFieldsFromICC with the CMS reporting CMYK, and
\* only to true.
CmykSetOnlyByParse ==
  (ce.cmyk # prev.cmyk) =>
    /\ op = "SetFieldsFromICC" /\ ok /\ arg.parsed.ok /\ arg.parsed.cmyk
    /\ ce.cmyk /\ IsMarkedInvalid(ce)

\* C13: cmyk becomes true only through SetFieldsFromICC when the CMS
\* reports CMYK, and it is terminal: in every state with cmyk == true the
\* color space is Unknown and the transfer function Unknown, and no later
\* call resets cmyk to false or populates the descriptive fields.
C13_CmykTerminal ==
  /\ CmykSetOnlyByParse
  /\ ce.cmyk => IsMarkedInvalid(ce)
  /\ prev.cmyk => ce.cmyk

\* C13 witness: on an encoding that a CMYK profile left with cmyk == true
\* and no fields, FromExternal succeeded and populated the fields, with
\* cmyk still true.
C13_Witness ==
  /\ op = "FromExternal" /\ ok
  /\ prev.cmyk /\ IsMarkedInvalid(prev)
  /\ ce.cmyk /\ ce.color_space = "kRGB" /\ ce.tf.have_gamma

(***************************************************************************)
(* VisitFields with and without an ICC                                     *)
(***************************************************************************)
\* The passes of the last call, each with the object it was made on as that
\* object was before the pass.
PassesOn ==
  IF IsVisit THEN {[p |-> out.w, c0 |-> prev], [p |-> out.r, c0 |-> out.into]}
  ELSE {}

\* The pass was not all-default and went on after want_icc was visited.
PastWantIcc(p) ==
  /\ Len(p.trace) >= 3
  /\ SubSeq(p.trace, 1, 3) = <<"all_default", "want_icc", "color_space">>

\* C14: a VisitFields pass with want_icc false (read or write, not
\* all-default) returns failure whenever color_space is Unknown or the
\* transfer function is Unknown without gamma after the descriptive fields
\* have been visited; when it returns success the ICC buffer is the profile
\* made from the visited fields and is not empty.
C14_NoICCPass ==
  \A q \in PassesOn :
    (PastWantIcc(q.p) /\ ~q.p.c.want_icc) =>
      /\ (q.p.c.color_space = "kUnknown" \/ TfIsUnknown(q.p.c.tf)) => ~q.p.ok
      /\ q.p.ok => /\ q.p.c.icc # EmptyICC
                   /\ q.p.c.icc = [kind |-> "created",
                                   of |-> ProfileFields(q.p.c)]

\* C14 witness: a read pass with want_icc false, into an object that held
\* the profile of the default fields, succeeded and left the profile of the
\* fields it read (white point E, a gamma).
C14_Witness ==
  /\ op = "VisitFieldsRead" /\ ok /\ ~ce.want_icc
  /\ out.into.icc.kind = "created" /\ ce.icc.kind = "created"
  /\ ce.icc # out.into.icc
  /\ ce.white_point = "kE" /\ ce.tf.have_gamma
  /\ ce.icc.of = ProfileFields(ce)

\* A write pass with want_icc false on an object whose color space or
\* transfer function is Unknown visits the descriptive fields and fails.
C14_WitnessUnknown ==
  /\ op = "VisitFieldsWrite" /\ ~ok /\ ~prev.want_icc
  /\ prev.color_space = "kRGB" /\ TfIsUnknown(prev.tf)
  /\ out.w.trace[Len(out.w.trace)] = "rendering_intent"

\* C15: in a VisitFields pass with want_icc true, a read pass succeeds and
\* leaves the ICC buffer as it was (empty or not); a write pass returns
\* failure if and only if the ICC buffer is empty; in neither are white
\* point, primaries, transfer function or rendering intent visited or
\* changed (nor, in a write pass, anything else).
C15_WantICCPass ==
  \A q \in PassesOn :
    (PastWantIcc(q.p) /\ q.p.c.want_icc) =>
      /\ q.p.trace = <<"all_default", "want_icc", "color_space">>
      /\ q.p.c.icc = q.c0.icc
      /\ DescriptiveState(q.p.c) =
           [DescriptiveState(q.c0) EXCEPT !.color_space = q.p.c.color_space]
      /\ q.p.reading => q.p.ok
      /\ ~q.p.reading => /\ q.p.ok <=> (q.c0.icc # EmptyICC)
                         /\ q.p.c = q.c0

\* C15 witness: a read pass with want_icc true into an object without ICC
\* bytes succeeded and left the buffer empty.
C15_Witness ==
  /\ op = "VisitFieldsRead" /\ ok /\ ce.want_icc
  /\ out.into.icc = EmptyICC /\ ce.icc = EmptyICC
  /\ ce.color_space = "kGray"
  /\ out.r.trace = <<"all_default", "want_icc", "color_space">>

\* A write pass with want_icc true on an object without ICC bytes (as a
\* read pass leaves it) fails, and one on an object with ICC bytes succeeds.
C15_WitnessWriteFails ==
  /\ op = "VisitFieldsWrite" /\ ~ok /\ prev.want_icc /\ prev.icc = EmptyICC

C15_WitnessWriteSucceeds ==
  /\ op = "VisitFieldsWrite" /\ ok /\ prev.want_icc /\ prev.icc.kind = "raw"

====
